---- MODULE Spec2Model ----
(***************************************************************************)
(* A model of SingletonProcess (src/src/singleton.hpp): a guard object     *)
(* that binds a UDP socket to a loopback port and uses the kernel's port   *)
(* table as a host-wide mutual-exclusion token.                            *)
(*                                                                         *)
(* The kernel is modelled by a per-process descriptor table `sock`; the    *)
(* port table is derived from it.  operator() is split at its system       *)
(* calls (socket, bind, close) because calls made by different processes   *)
(* interleave there; inside one process there is a single thread, so at    *)
(* most one call per process is in progress.                               *)
(***************************************************************************)
EXTENDS Integers, FiniteSets

\* ---- bounds ------------------------------------------------------------
NumInst == 3
NumProcs == 2
MaxFds == 2

\* ---- program constants -------------------------------------------------
RestrictedPort == 23
TestPort == 8080

Inst == 1..NumInst
Proc == 1..NumProcs
FDs == 3..(2 + MaxFds)
\* Port 0 is rejected by the caller (main.cpp:108), so it is not an input.
Ports == {RestrictedPort, TestPort}

\* Descriptor-table entries: CLOSED, UNBOUND, or the port the socket is bound to.
CLOSED == -1
UNBOUND == 0

\* The process an instance lives in (instances 1, 3, ... share process 1).
Owner(i) == ((i - 1) % NumProcs) + 1

VARIABLES
    live,        \* live[i]: the object exists (constructed, not yet destroyed)
    port_,       \* port_[i]: the member port_
    socket_fd_,  \* socket_fd_[i]: the member socket_fd_
    pc,          \* pc[i]: position of the thread inside operator() on i
    result,      \* result[i]: value returned by the last operator() on i
    env,         \* env[i]: what the port table showed for port_[i] during the last call
    cause,       \* cause[i]: outcome of the system calls of the last call on i
    sock,        \* sock[p][fd]: kernel descriptor table of process p
    maker,       \* maker[p][fd]: the instance whose socket() created the open fd
    root,        \* root[p]: process p may bind ports below 1024
    released,    \* ports freed by a destructor and not bound since
    ppc,         \* ppc[p]: position of process p in its caller program ("free": any caller)
    checked,     \* checked[p]: the port process p used in the one-liner
    called,      \* the instance whose operator() was entered by the last step, or 0
    stat,        \* stat[i]: system calls of the last call on i that entered the binding block
    reaped       \* ports freed by the death of a process and not bound since

vars == <<live, port_, socket_fd_, pc, result, env, cause, sock, maker, root,
          released, ppc, checked, called, stat, reaped>>

\* ---- the kernel --------------------------------------------------------

\* The port table: some open socket on the host is bound to port P.
PortInUse(P) == \E p \in Proc : \E fd \in FDs : sock[p][fd] = P

\* socket() returns the lowest-numbered descriptor not open in the process,
\* or -1 (EMFILE) when the table is full.
FreeFds(p) == {fd \in FDs : sock[p][fd] = CLOSED}
LowestFreeFd(p) ==
    IF FreeFds(p) = {} THEN -1
    ELSE CHOOSE fd \in FreeFds(p) : \A g \in FreeFds(p) : fd <= g

BindErrReusePort(p, P) ==
    IF P < 1024 /\ ~root[p] THEN "EACCES" ELSE "ok"
\* bind() of a fresh socket of process p to 127.0.0.1:P. The privilege test
\* precedes the port-table lookup.
BindErr(p, P) ==
    IF P < 1024 /\ ~root[p] THEN "EACCES"
    ELSE IF PortInUse(P) THEN "EADDRINUSE"
    ELSE "ok"

\* close(fd) in process p: the entry is released (and with it the port).
CloseFd(s, p, fd) == [s EXCEPT ![p][fd] = CLOSED]

\* ---- the object --------------------------------------------------------

Idle(i) == live[i] /\ pc[i] = "idle"
InCall(i) == live[i] /\ pc[i] # "idle"
\* No call is in progress in process p (one thread per process).
ThreadFree(p) == \A j \in Inst : Owner(j) = p => pc[j] = "idle"

\* The instance is Held: it stores a descriptor of an open socket bound to its port.
Held(i) ==
    /\ live[i]
    /\ socket_fd_[i] \in FDs
    /\ sock[Owner(i)][socket_fd_[i]] = port_[i]

\* What a call starting now sees of port P.
EnvAtCall(P) ==
    IF PortInUse(P) THEN "held"
    ELSE IF P \in reaped THEN "reaped"
    ELSE IF P \in released THEN "freed"
    ELSE "free"
\* Calls in progress on port P see the port change hands.
EnvOnTake(i, P) ==
    [j \in Inst |-> IF j # i /\ InCall(j) /\ port_[j] = P /\ env[j] \in {"free", "freed", "reaped"}
                    THEN "mixed" ELSE env[j]]
EnvOnFree(i, P) ==
    [j \in Inst |-> IF j # i /\ InCall(j) /\ port_[j] = P /\ env[j] = "held"
                    THEN "mixed" ELSE env[j]]

\* nsock and nbind count the socket() and bind() calls made by the call; none
\* are made before operator() enters the binding block.
NoCalls == [nsock |-> 0, nbind |-> 0]

\* A destroyed object has no observable fields: its slot returns to the
\* values Init gives it.
Forget(i) ==
    /\ port_' = [port_ EXCEPT ![i] = TestPort]
    /\ result' = [result EXCEPT ![i] = "none"]
    /\ cause' = [cause EXCEPT ![i] = "none"]
    /\ stat' = [stat EXCEPT ![i] = NoCalls]

Init ==
    /\ live = [i \in Inst |-> FALSE]
    /\ port_ = [i \in Inst |-> TestPort]
    /\ socket_fd_ = [i \in Inst |-> -1]
    /\ pc = [i \in Inst |-> "idle"]
    /\ result = [i \in Inst |-> "none"]
    /\ env = [i \in Inst |-> "none"]
    /\ cause = [i \in Inst |-> "none"]
    /\ sock = [p \in Proc |-> [fd \in FDs |-> CLOSED]]
    /\ maker = [p \in Proc |-> [fd \in FDs |-> 0]]
    /\ root = [p \in Proc |-> p = NumProcs]
    /\ released = {}
    /\ ppc = [p \in Proc |-> "free"]
    /\ checked = [p \in Proc |-> 0]
    /\ called = 0
    /\ stat = [i \in Inst |-> NoCalls]
    /\ reaped = {}

CtorEager(i, P) ==
    /\ ~live[i]
    /\ ThreadFree(Owner(i))
    /\ LowestFreeFd(Owner(i)) # -1
    /\ live' = [live EXCEPT ![i] = TRUE]
    /\ port_' = [port_ EXCEPT ![i] = P]
    /\ socket_fd_' = [socket_fd_ EXCEPT ![i] = LowestFreeFd(Owner(i))]
    /\ sock' = [sock EXCEPT ![Owner(i)][LowestFreeFd(Owner(i))] = UNBOUND]
    /\ maker' = [maker EXCEPT ![Owner(i)][LowestFreeFd(Owner(i))] = i]
    /\ result' = [result EXCEPT ![i] = "none"]
    /\ env' = [env EXCEPT ![i] = "none"]
    /\ cause' = [cause EXCEPT ![i] = "none"]
    /\ called' = 0
    /\ stat' = [stat EXCEPT ![i] = NoCalls]
    /\ UNCHANGED reaped
    /\ UNCHANGED <<pc, root, released>>

\* SingletonProcess(uint16_t port) : socket_fd_(-1), port_(port) {}
Ctor(i, P) ==
    /\ ~live[i]
    /\ ThreadFree(Owner(i))
    /\ live' = [live EXCEPT ![i] = TRUE]
    /\ port_' = [port_ EXCEPT ![i] = P]
    /\ socket_fd_' = [socket_fd_ EXCEPT ![i] = -1]
    /\ result' = [result EXCEPT ![i] = "none"]
    /\ env' = [env EXCEPT ![i] = "none"]
    /\ cause' = [cause EXCEPT ![i] = "none"]
    /\ called' = 0
    /\ stat' = [stat EXCEPT ![i] = NoCalls]
    /\ UNCHANGED reaped
    /\ UNCHANGED <<pc, sock, maker, root, released>>

\* An object the caller constructs and owns.
Construct(i, P) ==
    /\ ppc[Owner(i)] = "free"
    /\ Ctor(i, P)
    /\ UNCHANGED <<ppc, checked>>

\* operator() on an instance whose socket_fd_ is -1: the test at line 86
\* holds and the binding path is entered.
Enter(i) ==
    /\ Idle(i)
    /\ ThreadFree(Owner(i))
    /\ socket_fd_[i] = -1
    /\ pc' = [pc EXCEPT ![i] = "socket"]
    /\ env' = [env EXCEPT ![i] = EnvAtCall(port_[i])]
    /\ cause' = [cause EXCEPT ![i] = "none"]
    /\ result' = [result EXCEPT ![i] = "none"]
    /\ called' = i
    /\ stat' = [stat EXCEPT ![i] = NoCalls]
    /\ UNCHANGED reaped
    /\ UNCHANGED <<live, port_, socket_fd_, sock, maker, root, released>>

\* A call of operator() by the caller on an object without a descriptor.
CallBegin(i) ==
    /\ Enter(i)
    /\ UNCHANGED <<ppc, checked>>

CallHeldRebind(i) ==
    /\ Idle(i)
    /\ ThreadFree(Owner(i))
    /\ socket_fd_[i] # -1
    /\ pc' = [pc EXCEPT ![i] = "socket"]
    /\ env' = [env EXCEPT ![i] = EnvAtCall(port_[i])]
    /\ cause' = [cause EXCEPT ![i] = "none"]
    /\ result' = [result EXCEPT ![i] = "none"]
    /\ called' = i
    /\ stat' = [stat EXCEPT ![i] = NoCalls]
    /\ UNCHANGED reaped
    /\ UNCHANGED <<live, port_, socket_fd_, sock, maker, root, released, ppc, checked>>

\* operator() on an instance whose socket_fd_ is not -1: the test at line 86
\* fails and line 109 returns socket_fd_ != -1.
CallHeld(i) ==
    /\ Idle(i)
    /\ ThreadFree(Owner(i))
    /\ socket_fd_[i] # -1
    /\ result' = [result EXCEPT ![i] = IF socket_fd_[i] # -1 THEN "true" ELSE "false"]
    /\ called' = i
    /\ UNCHANGED <<stat, reaped>>
    /\ UNCHANGED <<live, port_, socket_fd_, pc, env, cause, sock, maker, root,
                   released, ppc, checked>>

\* socket_fd_ = socket(AF_INET, SOCK_DGRAM, 0); if (socket_fd_ < 0) return false;
\* The call fails when the descriptor table is full, and may fail for causes
\* outside the program (ENFILE, ENOBUFS, ENOMEM).
SocketStep(i) ==
    /\ live[i]
    /\ pc[i] = "socket"
    /\ \E ok \in BOOLEAN :
         LET p == Owner(i)
             fd == IF ok THEN LowestFreeFd(p) ELSE -1
         IN IF fd < 0
            THEN /\ socket_fd_' = [socket_fd_ EXCEPT ![i] = fd]
                 /\ pc' = [pc EXCEPT ![i] = "idle"]
                 /\ result' = [result EXCEPT ![i] = "false"]
                 /\ cause' = [cause EXCEPT ![i] = "ESOCKET"]
                 /\ UNCHANGED <<sock, maker>>
            ELSE /\ socket_fd_' = [socket_fd_ EXCEPT ![i] = fd]
                 /\ sock' = [sock EXCEPT ![p][fd] = UNBOUND]
                 /\ maker' = [maker EXCEPT ![p][fd] = i]
                 /\ pc' = [pc EXCEPT ![i] = "bind"]
                 /\ UNCHANGED <<result, cause>>
    /\ called' = 0
    /\ stat' = [stat EXCEPT ![i].nsock = @ + 1]
    /\ UNCHANGED reaped
    /\ UNCHANGED <<live, port_, env, root, released, ppc, checked>>

BindStepIgnoreErr(i) ==
    /\ live[i]
    /\ pc[i] = "bind"
    /\ LET p == Owner(i)
           e == BindErr(p, port_[i])
       IN /\ sock' = IF e = "ok" THEN [sock EXCEPT ![p][socket_fd_[i]] = port_[i]]
                     ELSE sock
          /\ released' = IF e = "ok" THEN released \ {port_[i]} ELSE released
          /\ env' = IF e = "ok" THEN EnvOnTake(i, port_[i]) ELSE env
          /\ cause' = [cause EXCEPT ![i] = e]
    /\ pc' = [pc EXCEPT ![i] = "idle"]
    /\ result' = [result EXCEPT ![i] = IF socket_fd_[i] # -1 THEN "true" ELSE "false"]
    /\ called' = 0
    /\ stat' = [stat EXCEPT ![i].nbind = @ + 1]
    /\ reaped' = IF BindErr(Owner(i), port_[i]) = "ok" THEN reaped \ {port_[i]} ELSE reaped
    /\ UNCHANGED <<live, port_, socket_fd_, maker, root, ppc, checked>>

\* if (bind(socket_fd_, 127.0.0.1:port_) != 0) { ... }  return socket_fd_ != -1;
BindStep(i) ==
    /\ live[i]
    /\ pc[i] = "bind"
    /\ LET p == Owner(i)
           e == BindErr(p, port_[i])
       IN IF e = "ok"
          THEN /\ sock' = [sock EXCEPT ![p][socket_fd_[i]] = port_[i]]
               /\ released' = released \ {port_[i]}
               /\ pc' = [pc EXCEPT ![i] = "idle"]
               /\ result' = [result EXCEPT ![i] =
                               IF socket_fd_[i] # -1 THEN "true" ELSE "false"]
               /\ env' = EnvOnTake(i, port_[i])
               /\ cause' = [cause EXCEPT ![i] = e]
          ELSE /\ pc' = [pc EXCEPT ![i] = "close"]
               /\ cause' = [cause EXCEPT ![i] = e]
               /\ UNCHANGED <<sock, result, env, released>>
    /\ called' = 0
    /\ stat' = [stat EXCEPT ![i].nbind = @ + 1]
    /\ reaped' = IF BindErr(Owner(i), port_[i]) = "ok" THEN reaped \ {port_[i]} ELSE reaped
    /\ UNCHANGED <<live, port_, socket_fd_, maker, root, ppc, checked>>

CloseStepLeak(i) ==
    /\ live[i]
    /\ pc[i] = "close"
    /\ socket_fd_' = [socket_fd_ EXCEPT ![i] = -1]
    /\ pc' = [pc EXCEPT ![i] = "idle"]
    /\ result' = [result EXCEPT ![i] = "false"]
    /\ called' = 0
    /\ UNCHANGED <<stat, reaped>>
    /\ UNCHANGED <<live, port_, env, cause, sock, maker, root, released, ppc, checked>>

CloseStepKeepFd(i) ==
    /\ live[i]
    /\ pc[i] = "close"
    /\ sock' = CloseFd(sock, Owner(i), socket_fd_[i])
    /\ maker' = [maker EXCEPT ![Owner(i)][socket_fd_[i]] = 0]
    /\ pc' = [pc EXCEPT ![i] = "idle"]
    /\ result' = [result EXCEPT ![i] = "false"]
    /\ called' = 0
    /\ UNCHANGED <<stat, reaped>>
    /\ UNCHANGED <<live, port_, socket_fd_, env, cause, root, released, ppc, checked>>

CloseStepRetry(i) ==
    /\ live[i]
    /\ pc[i] = "close"
    /\ sock' = CloseFd(sock, Owner(i), socket_fd_[i])
    /\ maker' = [maker EXCEPT ![Owner(i)][socket_fd_[i]] = 0]
    /\ socket_fd_' = [socket_fd_ EXCEPT ![i] = -1]
    /\ pc' = [pc EXCEPT ![i] = "socket"]
    /\ called' = 0
    /\ UNCHANGED <<stat, reaped>>
    /\ UNCHANGED <<live, port_, env, cause, result, root, released, ppc, checked>>

LowestOpenFd(p) == CHOOSE fd \in FDs \ FreeFds(p) : \A g \in FDs \ FreeFds(p) : fd <= g
CloseStepWrongFd(i) ==
    /\ live[i]
    /\ pc[i] = "close"
    /\ sock' = CloseFd(sock, Owner(i), LowestOpenFd(Owner(i)))
    /\ maker' = [maker EXCEPT ![Owner(i)][LowestOpenFd(Owner(i))] = 0]
    /\ socket_fd_' = [socket_fd_ EXCEPT ![i] = -1]
    /\ pc' = [pc EXCEPT ![i] = "idle"]
    /\ result' = [result EXCEPT ![i] = "false"]
    /\ called' = 0
    /\ UNCHANGED <<stat, reaped>>
    /\ UNCHANGED <<live, port_, env, cause, root, released, ppc, checked>>

\* The bind-failure branch: close(socket_fd_); socket_fd_ = -1; return false;
CloseStep(i) ==
    /\ live[i]
    /\ pc[i] = "close"
    /\ sock' = CloseFd(sock, Owner(i), socket_fd_[i])
    /\ maker' = [maker EXCEPT ![Owner(i)][socket_fd_[i]] = 0]
    /\ socket_fd_' = [socket_fd_ EXCEPT ![i] = -1]
    /\ pc' = [pc EXCEPT ![i] = "idle"]
    /\ result' = [result EXCEPT ![i] = "false"]
    /\ called' = 0
    /\ UNCHANGED <<stat, reaped>>
    /\ UNCHANGED <<live, port_, env, cause, root, released, ppc, checked>>

DtorNoClose(i) ==
    /\ Idle(i)
    /\ ThreadFree(Owner(i))
    /\ env' = [env EXCEPT ![i] = "none"]
    /\ socket_fd_' = [socket_fd_ EXCEPT ![i] = -1]
    /\ live' = [live EXCEPT ![i] = FALSE]
    /\ Forget(i)
    /\ called' = 0
    /\ UNCHANGED reaped
    /\ UNCHANGED <<pc, sock, maker, root, released>>

\* ~SingletonProcess(): if (socket_fd_ != -1) { close(socket_fd_); socket_fd_ = -1; }
Dtor(i) ==
    /\ Idle(i)
    /\ ThreadFree(Owner(i))
    /\ IF socket_fd_[i] # -1
       THEN /\ sock' = CloseFd(sock, Owner(i), socket_fd_[i])
            /\ maker' = [maker EXCEPT ![Owner(i)][socket_fd_[i]] = 0]
            /\ env' = [(IF Held(i) THEN EnvOnFree(i, port_[i]) ELSE env)
                         EXCEPT ![i] = "none"]
            /\ released' = IF Held(i) THEN released \cup {port_[i]} ELSE released
       ELSE /\ env' = [env EXCEPT ![i] = "none"]
            /\ UNCHANGED <<sock, maker, released>>
    /\ socket_fd_' = [socket_fd_ EXCEPT ![i] = -1]
    /\ live' = [live EXCEPT ![i] = FALSE]
    /\ Forget(i)
    /\ called' = 0
    /\ UNCHANGED reaped
    /\ UNCHANGED <<pc, root>>

\* The end of the lifetime of an object the caller owns.
Destroy(i) ==
    /\ ppc[Owner(i)] = "free"
    /\ Dtor(i)
    /\ UNCHANGED <<ppc, checked>>

Next ==
    \E i \in Inst :
        \/ \E P \in Ports : Construct(i, P)
        \/ CallHeld(i)
        \/ CallBegin(i)
        \/ SocketStep(i)
        \/ BindStep(i)
        \/ CloseStep(i)
        \/ Destroy(i)

Spec == Init /\ [][Next]_vars

\* ---- the documented usage ----------------------------------------------
\*   if (!SingletonProcess(12345)()) { std::exit(EXIT_FAILURE); }
\* Every process runs this line once: the object is a temporary of the
\* condition, destroyed at the end of that full-expression, before the
\* branch is taken.

\* The slot of the temporary of process p.
Temp(p) == CHOOSE i \in Inst : Owner(i) = p /\ \A j \in Inst : Owner(j) = p => i <= j

InitOneLiner ==
    /\ live = [i \in Inst |-> FALSE]
    /\ port_ = [i \in Inst |-> TestPort]
    /\ socket_fd_ = [i \in Inst |-> -1]
    /\ pc = [i \in Inst |-> "idle"]
    /\ result = [i \in Inst |-> "none"]
    /\ env = [i \in Inst |-> "none"]
    /\ cause = [i \in Inst |-> "none"]
    /\ sock = [p \in Proc |-> [fd \in FDs |-> CLOSED]]
    /\ maker = [p \in Proc |-> [fd \in FDs |-> 0]]
    /\ root = [p \in Proc |-> p = NumProcs]
    /\ released = {}
    /\ ppc = [p \in Proc |-> "start"]
    /\ checked = [p \in Proc |-> 0]
    /\ called = 0
    /\ stat = [i \in Inst |-> NoCalls]
    /\ reaped = {}

\* SingletonProcess(port): the temporary is constructed.
OLConstruct(p, P) ==
    /\ ppc[p] = "start"
    /\ Ctor(Temp(p), P)
    /\ ppc' = [ppc EXCEPT ![p] = "check"]
    /\ checked' = [checked EXCEPT ![p] = P]

\* ...(): operator() is called on the temporary, once.
OLCall(p) ==
    /\ ppc[p] = "check"
    /\ result[Temp(p)] = "none"
    /\ CallBegin(Temp(p))

\* The full-expression ends: the temporary is destroyed, then the process
\* exits if the call returned false and runs on if it returned true.
OLEnd(p) ==
    /\ ppc[p] = "check"
    /\ result[Temp(p)] # "none"
    /\ Dtor(Temp(p))
    /\ ppc' = [ppc EXCEPT ![p] = IF result[Temp(p)] = "true" THEN "running" ELSE "exited"]
    /\ checked' = [checked EXCEPT ![p] = IF result[Temp(p)] = "true" THEN @ ELSE 0]

NextOneLiner ==
    \E p \in Proc :
        \/ \E P \in Ports : OLConstruct(p, P)
        \/ OLCall(p)
        \/ ppc[p] = "check" /\ SocketStep(Temp(p))
        \/ ppc[p] = "check" /\ BindStep(Temp(p))
        \/ ppc[p] = "check" /\ CloseStep(Temp(p))
        \/ OLEnd(p)

SpecOneLiner == InitOneLiner /\ [][NextOneLiner]_vars

\* ---- a race for one port ------------------------------------------------
\* One object per process; each is constructed and called once, and none is
\* destroyed: the processes race with their socket() and bind() calls
\* interleaved in any order.
Racers == {i \in Inst : \A j \in Inst : Owner(j) = Owner(i) => i <= j}

NextRace ==
    \E i \in Racers :
        \/ \E P \in Ports : Construct(i, P)
        \/ result[i] = "none" /\ CallBegin(i)
        \/ SocketStep(i)
        \/ BindStep(i)
        \/ CloseStep(i)

SpecRace == Init /\ [][NextRace]_vars

\* ---- a caller that calls again after a failure ---------------------------
\* One object per process. After operator() has returned false the caller
\* calls it again on the same object; ppc[p] = "again" from then on, until
\* the object is destroyed.

\* A further call of operator() on an object whose last call returned false.
RetryCall(i) ==
    /\ result[i] = "false"
    /\ Enter(i)
    /\ ppc' = [ppc EXCEPT ![Owner(i)] = "again"]
    /\ UNCHANGED checked

\* The object of a retrying caller leaves scope.
Discard(i) ==
    /\ Dtor(i)
    /\ ppc' = [ppc EXCEPT ![Owner(i)] = "free"]
    /\ UNCHANGED checked

NextRetry ==
    \E i \in Racers :
        \/ \E P \in Ports : Construct(i, P)
        \/ result[i] = "none" /\ CallBegin(i)
        \/ RetryCall(i)
        \/ CallHeld(i)
        \/ SocketStep(i)
        \/ BindStep(i)
        \/ CloseStep(i)
        \/ Discard(i)

SpecRetry == Init /\ [][NextRetry]_vars

\* ---- the death of a process ----------------------------------------------
\* A process is killed (or calls std::exit inside a call): no destructor of
\* its objects runs, the kernel closes every descriptor of the process, and
\* its objects cease to exist.
PortsOf(p) == {P \in Ports : \E fd \in FDs : sock[p][fd] = P}

Kill(p) ==
    /\ ppc[p] = "free"
    /\ \E i \in Inst : Owner(i) = p /\ live[i]
    /\ sock' = [sock EXCEPT ![p] = [fd \in FDs |-> CLOSED]]
    /\ maker' = [maker EXCEPT ![p] = [fd \in FDs |-> 0]]
    /\ reaped' = reaped \cup PortsOf(p)
    /\ live' = [i \in Inst |-> live[i] /\ Owner(i) # p]
    /\ socket_fd_' = [i \in Inst |-> IF Owner(i) = p THEN -1 ELSE socket_fd_[i]]
    /\ pc' = [i \in Inst |-> IF Owner(i) = p THEN "idle" ELSE pc[i]]
    /\ port_' = [i \in Inst |-> IF Owner(i) = p THEN TestPort ELSE port_[i]]
    /\ result' = [i \in Inst |-> IF Owner(i) = p THEN "none" ELSE result[i]]
    /\ cause' = [i \in Inst |-> IF Owner(i) = p THEN "none" ELSE cause[i]]
    /\ stat' = [i \in Inst |-> IF Owner(i) = p THEN NoCalls ELSE stat[i]]
    /\ env' = [i \in Inst |->
                 IF Owner(i) = p THEN "none"
                 ELSE IF InCall(i) /\ port_[i] \in PortsOf(p) /\ env[i] = "held"
                      THEN "mixed" ELSE env[i]]
    /\ called' = 0
    /\ UNCHANGED <<root, released, ppc, checked>>

\* Objects are constructed and called; none is destroyed, so a port is freed
\* only by the death of the process that holds it.
NextKill ==
    \/ \E i \in Inst :
        \/ \E P \in Ports : Construct(i, P)
        \/ CallBegin(i)
        \/ SocketStep(i)
        \/ BindStep(i)
        \/ CloseStep(i)
    \/ \E p \in Proc : Kill(p)

SpecKill == Init /\ [][NextKill]_vars

\* ---- copies --------------------------------------------------------------
\* The class declares a destructor but neither deletes nor defines its copy
\* operations, so the compiler generates member-wise ones.

\* SingletonProcess j(i): j gets i's socket_fd_ and port_.
CopyConstruct(j, i) ==
    /\ ~live[j]
    /\ Idle(i)
    /\ Owner(j) = Owner(i)
    /\ ThreadFree(Owner(i))
    /\ ppc[Owner(i)] = "free"
    /\ live' = [live EXCEPT ![j] = TRUE]
    /\ port_' = [port_ EXCEPT ![j] = port_[i]]
    /\ socket_fd_' = [socket_fd_ EXCEPT ![j] = socket_fd_[i]]
    /\ called' = 0
    /\ UNCHANGED <<pc, result, env, cause, sock, maker, root, released, ppc,
                   checked, stat, reaped>>

\* j = i: j's members are overwritten with i's; nothing is closed.
CopyAssign(j, i) ==
    /\ j # i
    /\ Idle(j)
    /\ Idle(i)
    /\ Owner(j) = Owner(i)
    /\ ThreadFree(Owner(i))
    /\ ppc[Owner(i)] = "free"
    /\ port_' = [port_ EXCEPT ![j] = port_[i]]
    /\ socket_fd_' = [socket_fd_ EXCEPT ![j] = socket_fd_[i]]
    /\ called' = 0
    /\ UNCHANGED <<live, pc, result, env, cause, sock, maker, root, released, ppc,
                   checked, stat, reaped>>

NextCopy ==
    \E i \in Inst :
        \/ \E P \in Ports : Construct(i, P)
        \/ CallHeld(i)
        \/ CallBegin(i)
        \/ SocketStep(i)
        \/ BindStep(i)
        \/ CloseStep(i)
        \/ Destroy(i)
        \/ \E j \in Inst : CopyConstruct(j, i)
        \/ \E j \in Inst : CopyAssign(j, i)

SpecCopy == Init /\ [][NextCopy]_vars

\* ---- properties ---------------------------------------------------------

\* The open sockets that instance i created.
Made(i) == {fd \in FDs : sock[Owner(i)][fd] # CLOSED /\ maker[Owner(i)][fd] = i}
\* The open sockets of the host bound to port P.
BoundTo(P) == {s \in Proc \X FDs : sock[s[1]][s[2]] = P}

\* C1: mutual exclusion. In every reachable state at most one socket of the
\* host is bound to a port P and at most one instance is Held on P, whatever
\* the interleaving of operator() calls and destructions, in one process or
\* in several.
C1MutualExclusion ==
    \A P \in Ports :
        /\ Cardinality(BoundTo(P)) <= 1
        /\ Cardinality({i \in Inst : Held(i) /\ port_[i] = P}) <= 1

C1Witness ==
    \E i, j \in Inst :
        /\ i # j
        /\ Held(i)
        /\ Idle(j) /\ port_[j] = port_[i]
        /\ result[j] = "false" /\ cause[j] = "EADDRINUSE"

\* C2: a call on B that ran while another instance held B's port (the port was
\* in use when the call began and was not freed during it) returned false and
\* left B without a descriptor and without an open socket.
C2ContendedFails ==
    \A b \in Inst :
        Idle(b) /\ env[b] = "held" =>
            /\ result[b] = "false"
            /\ socket_fd_[b] = -1
            /\ Made(b) = {}

C2Witness ==
    \E a, b, c \in Inst :
        /\ Held(a)
        /\ b # a /\ Owner(b) = Owner(a)
        /\ c # a /\ Owner(c) # Owner(a)
        /\ \A x \in {b, c} :
              /\ Idle(x) /\ port_[x] = port_[a]
              /\ env[x] = "held" /\ result[x] = "false"

\* C3: two processes that both passed the one-liner check on the same port
\* are never running at the same time.
C3SoleInstanceWhileRunning ==
    \A p, q \in Proc :
        p # q /\ ppc[p] = "running" /\ ppc[q] = "running" => checked[p] # checked[q]

\* The racers on port P whose call reached bind() and was not refused for
\* lack of privilege.
Contenders(P) ==
    {i \in Racers : Idle(i) /\ port_[i] = P /\ cause[i] \in {"ok", "EADDRINUSE"}}

\* C4: among the processes racing for a port P they may bind, each with a
\* socket created and bind() attempted, exactly one call returned true (and
\* its instance is Held); every other one returned false.
C4RaceOneWinner ==
    \A P \in Ports :
        Contenders(P) # {} =>
            /\ Cardinality({i \in Contenders(P) : result[i] = "true"}) = 1
            /\ \A i \in Contenders(P) : result[i] = "true" <=> Held(i)
            /\ \A i \in Contenders(P) : result[i] \in {"true", "false"}

C4Witness ==
    \E i, j \in Racers :
        /\ Owner(i) # Owner(j)
        /\ port_[i] = port_[j]
        /\ Idle(i) /\ result[i] = "true"
        /\ Idle(j) /\ result[j] = "false" /\ cause[j] = "EADDRINUSE"
        /\ env[j] = "mixed"

\* C5 as stated: a call on a port that a destructor had freed, and that no
\* other instance took before the call returned, returns true.
C5NextAcquireSucceeds ==
    \A c \in Inst : Idle(c) /\ env[c] = "freed" => result[c] = "true"

\* C5, amended: destroying the instance that holds P frees P in the port
\* table; and a call on P after that, with P taken by no other instance
\* before it returned, fails only if socket() failed or bind() was refused
\* for lack of privilege.
C5ReleaseOnDestroy ==
    /\ [][\A a \in Inst : \A P \in Ports :
            Held(a) /\ port_[a] = P /\ ~live'[a] =>
                (BoundTo(P))' = {} /\ P \in released']_vars
    /\ [](\A c \in Inst :
            Idle(c) /\ env[c] = "freed" /\ result[c] # "true" =>
                result[c] = "false" /\ cause[c] \in {"ESOCKET", "EACCES"})

C5Witness ==
    \E c \in Inst :
        Held(c) /\ env[c] = "freed" /\ result[c] = "true" /\ cause[c] = "ok"

\* C6: a step that enters operator() on a Held instance returns true at once
\* and changes neither the descriptor tables (no socket created, closed or
\* bound) nor any stored descriptor.
C6IdempotentOnHeld ==
    [][\A i \in Inst :
         Held(i) /\ called' = i =>
            /\ result'[i] = "true"
            /\ pc'[i] = "idle"
            /\ sock' = sock
            /\ maker' = maker
            /\ socket_fd_' = socket_fd_]_vars

C6Witness ==
    \E i \in Inst : called = i /\ Held(i) /\ Idle(i) /\ result[i] = "true"

\* C7: the value returned after a bind refused for lack of privilege differs
\* from the value returned after a bind refused because the port is in use.
C7BindFailedDistinguishable ==
    \A i, j \in Inst :
        /\ Idle(i) /\ cause[i] = "EACCES"
        /\ Idle(j) /\ cause[j] = "EADDRINUSE"
        => result[i] # result[j]

\* C8: after a call has returned, it returned true exactly if the instance
\* is Held, and after a return of false the instance stores no descriptor.
C8TrueIffHeld ==
    \A i \in Inst :
        Idle(i) /\ result[i] # "none" =>
            /\ result[i] = "true" <=> Held(i)
            /\ result[i] = "false" => socket_fd_[i] = -1

C8Witness ==
    \E i, j \in Inst :
        /\ Idle(i) /\ result[i] = "true" /\ Held(i)
        /\ Idle(j) /\ result[j] = "false" /\ cause[j] = "EACCES"

\* C9: no descriptor leak. Outside a call an instance has exactly one open
\* socket of its own, the one it stores, if it is Held and none otherwise
\* (none either once destroyed); inside a call it has at most one; and every
\* open socket was created by a live instance.
C9NoLeak ==
    /\ \A i \in Inst :
          /\ pc[i] = "idle" => Cardinality(Made(i)) = IF Held(i) THEN 1 ELSE 0
          /\ Held(i) => Made(i) = {socket_fd_[i]}
          /\ Cardinality(Made(i)) <= 1
    /\ \A p \in Proc : \A fd \in FDs :
          sock[p][fd] # CLOSED => maker[p][fd] \in Inst /\ live[maker[p][fd]]

C9Witness ==
    \E i, j, k \in Inst :
        /\ Held(i) /\ Idle(i)
        /\ Idle(j) /\ result[j] = "false" /\ cause[j] = "EADDRINUSE" /\ Made(j) = {}
        /\ Idle(k) /\ result[k] = "false" /\ cause[k] = "EACCES" /\ Made(k) = {}

\* C10: a step that does not destroy a Held instance leaves its descriptor
\* stored, open and bound to its port, whichever instance the step acts on.
C10HeldUntilDestroyed ==
    [][\A i \in Inst :
         Held(i) /\ live'[i] =>
            /\ socket_fd_'[i] = socket_fd_[i]
            /\ port_'[i] = port_[i]
            /\ sock'[Owner(i)][socket_fd_[i]] = port_[i]]_vars

C10Witness ==
    \E i, j \in Inst :
        /\ Held(i) /\ result[i] = "true"
        /\ j # i /\ port_[j] = port_[i]
        /\ live[j] /\ pc[j] = "close"

\* C11 as stated: the first call on a freshly constructed instance, made on
\* a port that no socket held from the start of the call to its return,
\* returns true and leaves the instance Held.
C11FirstAcquireSucceeds ==
    \A c \in Racers : Idle(c) /\ env[c] = "free" => result[c] = "true" /\ Held(c)

\* C11, amended: such a call returns true and leaves the instance Held,
\* unless socket() failed or bind() was refused for lack of privilege; then
\* it returns false and the instance stores no descriptor.
C11FirstAcquireUnlessRefused ==
    \A c \in Racers :
        Idle(c) /\ env[c] = "free" =>
            \/ result[c] = "true" /\ Held(c) /\ cause[c] = "ok"
            \/ /\ result[c] = "false" /\ ~Held(c)
               /\ cause[c] \in {"ESOCKET", "EACCES"}

C11Witness ==
    \E c \in Racers :
        /\ Held(c) /\ Idle(c)
        /\ env[c] = "free" /\ result[c] = "true"
        /\ stat[c].nsock = 1 /\ stat[c].nbind = 1

\* C12 as stated: a call on a port that the death of its holder's process
\* had freed, and that nobody took before the call returned, returns true.
C12AcquireAfterKillSucceeds ==
    \A c \in Inst : Idle(c) /\ env[c] = "reaped" => result[c] = "true"

\* C12, amended: when a process dies without running destructors, every port
\* its sockets were bound to is free and its instances are gone; and a later
\* call on such a port, taken by nobody before the call returned, fails only
\* if socket() failed or bind() was refused for lack of privilege.
C12ReleaseOnKill ==
    /\ [][\A P \in Ports :
            P \in reaped' /\ P \notin reaped =>
                /\ BoundTo(P) # {}
                /\ (BoundTo(P))' = {}
                /\ \A i \in Inst : Held(i) /\ port_[i] = P => ~live'[i]]_vars
    /\ [](\A c \in Inst :
            Idle(c) /\ env[c] = "reaped" /\ result[c] # "true" =>
                /\ result[c] = "false"
                /\ socket_fd_[c] = -1
                /\ cause[c] \in {"ESOCKET", "EACCES"})

C12Witness ==
    \E c \in Inst :
        Held(c) /\ env[c] = "reaped" /\ result[c] = "true" /\ cause[c] = "ok"

\* C13: in a call made after an earlier call on the same instance returned
\* false, no socket is created and no bind is attempted, and the instance
\* does not become Held.
C13BindAttemptedOnce ==
    \A i \in Racers :
        ppc[Owner(i)] = "again" =>
            /\ stat[i].nsock = 0
            /\ stat[i].nbind = 0
            /\ ~Held(i)

\* C14: no internal retry. A call makes at most one socket() and at most one
\* bind(); after a failed socket() it has returned false without a bind(),
\* and after a failed bind() it goes on only to close and return false.
C14NoInternalRetry ==
    \A i \in Inst :
        /\ stat[i].nsock <= 1
        /\ stat[i].nbind <= stat[i].nsock
        /\ cause[i] = "ESOCKET" =>
              Idle(i) /\ result[i] = "false" /\ stat[i].nbind = 0
        /\ cause[i] \in {"EACCES", "EADDRINUSE"} =>
              /\ stat[i].nbind = 1
              /\ pc[i] \in {"close", "idle"}
              /\ pc[i] = "idle" => result[i] = "false"

C14Witness ==
    \E i, j \in Inst :
        /\ Idle(i) /\ cause[i] = "EADDRINUSE" /\ result[i] = "false"
        /\ stat[i].nsock = 1 /\ stat[i].nbind = 1
        /\ Idle(j) /\ cause[j] = "ESOCKET" /\ result[j] = "false"
        /\ stat[j].nsock = 1 /\ stat[j].nbind = 0

\* C15: the step that constructs an instance changes no descriptor table (and
\* so not the port table) and leaves the instance without a descriptor, not in
\* a call, with a port of the input range; and no later step changes the port
\* of a live instance.
C15ConstructionNoIO ==
    [][\A i \in Inst :
         /\ ~live[i] /\ live'[i] =>
               /\ sock' = sock
               /\ maker' = maker
               /\ socket_fd_'[i] = -1
               /\ pc'[i] = "idle"
               /\ result'[i] = "none"
               /\ port_'[i] \in Ports
               /\ \A j \in Inst : j # i => socket_fd_'[j] = socket_fd_[j]
         /\ live[i] /\ live'[i] => port_'[i] = port_[i]]_vars

C15Witness ==
    \E i, j \in Inst :
        /\ Idle(i) /\ socket_fd_[i] = -1 /\ result[i] = "none"
        /\ port_[i] = RestrictedPort
        /\ Held(j) /\ port_[j] = TestPort

\* The state of instance j that another instance's step must leave alone.
Untouched(j) ==
    /\ live'[j] = live[j]
    /\ port_'[j] = port_[j]
    /\ socket_fd_'[j] = socket_fd_[j]
    /\ pc'[j] = pc[j]
    /\ result'[j] = result[j]
    /\ socket_fd_[j] \in FDs =>
          sock'[Owner(j)][socket_fd_[j]] = sock[Owner(j)][socket_fd_[j]]

\* C16: every step of a call other than its successful bind (the socket
\* creation, the failed bind, the close on the failure path), and the
\* destruction of an instance that is not Held, leave the port table and the
\* state of every other instance unchanged.
C16FailureFrame ==
    [][\A i \in Inst :
         \/ InCall(i) /\ pc'[i] # pc[i] /\ ~Held(i)'
         \/ live[i] /\ ~Held(i) /\ ~live'[i]
         =>
         /\ \A P \in Ports : (BoundTo(P))' = BoundTo(P)
         /\ \A j \in Inst : j # i => Untouched(j)]_vars

C16Witness ==
    \E i, j \in Inst :
        /\ i # j /\ Owner(i) = Owner(j)
        /\ Held(j)
        /\ socket_fd_[j] < socket_fd_[i]
        /\ pc[i] = "close" /\ cause[i] = "EADDRINUSE"

\* C17: no two live instances store the same descriptor, and a descriptor
\* stored outside a call is open (so that the close the destructor will make
\* is the first close of it).
C17ExclusiveOwnership ==
    \A i \in Inst :
        Idle(i) /\ socket_fd_[i] # -1 =>
            /\ sock[Owner(i)][socket_fd_[i]] # CLOSED
            /\ \A j \in Inst :
                  j # i /\ live[j] /\ Owner(j) = Owner(i) =>
                      socket_fd_[j] # socket_fd_[i]

====
